---- MODULE Spec2Model ----
(***************************************************************************)
(* Model of QLearningElevatorAlgo                                          *)
(* (algo/naive_elevator/q_learning_elevator/q_learning_elevator.py).       *)
(*                                                                         *)
(* Representation of the numeric types:                                    *)
(*   - epsilon, learning_rate, DISCOUNT and the exploration draw are       *)
(*     fixed-point numbers in units of 1/Scale;                            *)
(*   - Q values and rewards are fixed-point numbers in units of 1/QScale;  *)
(*   - elevator_location is a real floor position, kept in half floors     *)
(*     (elevator_location = 3 stands for floor 1.5);                       *)
(*   - None is <<>> for previous_state_and_action and NoneTs for           *)
(*     last_action_ts;                                                     *)
(*   - q_table is the dense array written sparsely: `row' is the value of  *)
(*     every still unwritten row (one value per action), `cells' holds the *)
(*     entries a Q-update has written, keyed by state ++ <<action>>;       *)
(*   - model_pkl is NoFile, Garbage, or the pickled tuple                  *)
(*     <<q_table, episode, epsilon, learning_rate>>.                       *)
(***************************************************************************)
EXTENDS Integers, Sequences, FiniteSets, TLC

VARIABLES
    max_floor,                  \* constructor argument
    elevator_location,          \* supplied by the interface, in half floors
    current_timestamp,          \* supplied by the interface
    tasks,                      \* self.tasks
    request_direction_times,    \* self.request_direction_times
    previous_state_and_action,  \* self.previous_state_and_action
    last_action_ts,             \* self.last_action_ts
    rider_registration_ts,      \* self.rider_registration_ts
    q_table,                    \* self.q_table
    episode,                    \* self.episode
    epsilon,                    \* self.epsilon
    learning_rate,              \* self.learning_rate
    model_pkl,                  \* the file MODEL_PICKLE_FILENAME
    rider_stage,                \* what the callers know of each rider's trip
    call                        \* the last public call: what its decision cycle did and returned

vars == <<max_floor, elevator_location, current_timestamp, tasks, request_direction_times,
          previous_state_and_action, last_action_ts, rider_registration_ts, q_table,
          episode, epsilon, learning_rate, model_pkl, rider_stage, call>>

----------------------------------------------------------------------------
\* Bounds of the model

MaxTasks == 1
MaxRecords == 1
MaxTime == 1

----------------------------------------------------------------------------
\* Program constants

Scale == 10000
QScale == 100

MAX_FLOOR_TASKS_TO_COUNT == 3
REQUESTS_TO_CONSIDER_FOR_DIRECTION_TREND == 10

INITIAL_EPSILON == 10000
MIN_EPSILON == 500
INITIAL_LEARNING_RATE == 8000
MIN_LEARNING_RATE == 1000
DISCOUNT == 9900

ROUND_TO_START_LEARNING_DECAY == 0
ROUND_TO_END_LEARNING_DECAY == 10000

\* (MIN_EPSILON / INITIAL_EPSILON) ** (1 / 10000) = 0.99970047...
epsilon_decay_factor == 9997
\* (MIN_LEARNING_RATE / INITIAL_LEARNING_RATE) ** (1 / 10000) = 0.99979208...
learning_decay_factor == 9998

MOSTLY_UP == 0
MOSTLY_DOWN == 1
UNDETERMINED == 2

NoneTs == -1
NoDraw == -1
NoRider == 0
NoFloor == 0

----------------------------------------------------------------------------
\* Helpers on sequences

Max2(a, b) == IF a >= b THEN a ELSE b
Min2(a, b) == IF a <= b THEN a ELSE b

RECURSIVE SelectIn(_, _)
\* the subsequence of s made of the elements that belong to S
SelectIn(s, S) ==
    IF s = <<>> THEN <<>>
    ELSE IF Head(s) \in S THEN <<Head(s)>> \o SelectIn(Tail(s), S)
         ELSE SelectIn(Tail(s), S)

Range(s) == {s[i] : i \in 1..Len(s)}

Count(s, x) == Cardinality({i \in 1..Len(s) : s[i] = x})

RECURSIVE Dedup(_)
\* the distinct elements of s in order of first occurrence (dict key order)
Dedup(s) ==
    IF s = <<>> THEN <<>>
    ELSE LET d == Dedup(SubSeq(s, 1, Len(s) - 1))
             x == s[Len(s)]
         IN IF x \in Range(d) THEN d ELSE Append(d, x)

\* the integers of lo..hi that belong to S, ascending
AscendingIn(lo, hi, S) == SelectIn([i \in 1..(hi - lo + 1) |-> lo + i - 1], S)

----------------------------------------------------------------------------
\* Task, UpDown, TaskType

Task(rider_id, floor, task_type) ==
    [rider_id |-> rider_id, floor |-> floor, task_type |-> task_type]

\* UpDown.UP if destination_floor > self.elevator_location else UpDown.DOWN
Direction(destination_floor, location) ==
    IF 2 * destination_floor > location THEN "UP" ELSE "DOWN"

----------------------------------------------------------------------------
\* _discreet_elevator_location: int(round(x)), ties go to the even integer

Round(halves) ==
    IF halves % 2 = 0 THEN halves \div 2
    ELSE LET k == (halves - 1) \div 2
         IN IF k % 2 = 0 THEN k ELSE k + 1

_discreet_elevator_location(location) == Round(location)

----------------------------------------------------------------------------
\* _direction_trend

RECURSIVE InsertByTimestamp(_, _)
\* x goes after every record whose timestamp is <= its own: sorted() is stable
InsertByTimestamp(sorted, x) ==
    IF sorted = <<>> THEN <<x>>
    ELSE IF sorted[Len(sorted)].timestamp <= x.timestamp THEN Append(sorted, x)
         ELSE Append(InsertByTimestamp(SubSeq(sorted, 1, Len(sorted) - 1), x),
                     sorted[Len(sorted)])

RECURSIVE SortedByTimestamp(_)
SortedByTimestamp(log) ==
    IF log = <<>> THEN <<>>
    ELSE InsertByTimestamp(SortedByTimestamp(SubSeq(log, 1, Len(log) - 1)), log[Len(log)])

directions_list(log) ==
    LET sorted == SortedByTimestamp(log)
    IN [i \in 1..Len(sorted) |-> sorted[i].direction]

\* directions_list[:-REQUESTS_TO_CONSIDER_FOR_DIRECTION_TREND]
TrendSlice(dirs) ==
    SubSeq(dirs, 1, Len(dirs) - REQUESTS_TO_CONSIDER_FOR_DIRECTION_TREND)

_direction_trend(log) ==
    LET considered == TrendSlice(directions_list(log))
        up == Count(considered, "UP")
        down == Len(considered) - up
    IN IF 10 * up >= 7 * REQUESTS_TO_CONSIDER_FOR_DIRECTION_TREND THEN MOSTLY_UP
       ELSE IF 10 * down >= 7 * REQUESTS_TO_CONSIDER_FOR_DIRECTION_TREND THEN MOSTLY_DOWN
       ELSE UNDETERMINED

----------------------------------------------------------------------------
\* _get_state

\* [t.floor - 1 for t in self.tasks if t.task_type == task_type]
FloorIndexes(ts, task_type) ==
    LET sel == SelectIn(ts, {t \in Range(ts) : t.task_type = task_type})
    IN [i \in 1..Len(sel) |-> sel[i].floor - 1]

\* faulty variant: the count is not capped
Unclamped(n) == n

\* min(counter[floor], MAX_FLOOR_TASKS_TO_COUNT)
Clamp(n) == Min2(n, MAX_FLOOR_TASKS_TO_COUNT)

\* faulty variant: the floors without a task are not added
CountedKeys(indexes, n) == Dedup(indexes)

\* The keys of the Counter after the loop over range(max_floor), in dict order:
\* the counted floors in order of first occurrence, then the floors the loop adds.
CounterKeys(indexes, n) ==
    LET counted == Dedup(indexes)
    IN counted \o AscendingIn(0, n - 1, (0..(n - 1)) \ Range(counted))

\* list(counter.values()) after the loop over range(max_floor)
CounterValues(indexes, n) ==
    LET keys == CounterKeys(indexes, n)
    IN [i \in 1..Len(keys) |->
            IF keys[i] \in 0..(n - 1) THEN Clamp(Count(indexes, keys[i]))
            ELSE Count(indexes, keys[i])]

_get_state(ts, log, location, n) ==
    <<_discreet_elevator_location(location) - 1, _direction_trend(log)>>
        \o CounterValues(FloorIndexes(ts, "PICKUP"), n)
        \o CounterValues(FloorIndexes(ts, "DROPOFF"), n)

----------------------------------------------------------------------------
\* The Q table

\* self.q_table[key], key = state ++ <<action>>
QValue(table, key) ==
    IF key \in DOMAIN table.cells THEN table.cells[key]
    ELSE table.row[key[Len(key)] + 1]

\* self.q_table[state]: one value per action
QRow(table, state, n) == [a \in 1..n |-> QValue(table, state \o <<a - 1>>)]

\* self.q_table[key] = value
QWrite(table, key, value) == [table EXCEPT !.cells = (key :> value) @@ table.cells]

\* np.max(row)
RowMax(row) == CHOOSE m \in Range(row) : \A i \in 1..Len(row) : row[i] <= m

\* faulty variant: np.argmin in place of np.argmax
argmin(row) ==
    (CHOOSE i \in 1..Len(row) :
        /\ \A j \in 1..Len(row) : row[i] <= row[j]
        /\ \A j \in 1..(i - 1) : row[j] > row[i]) - 1

\* np.argmax(row): the first index holding the maximum, zero-based
argmax(row) ==
    (CHOOSE i \in 1..Len(row) :
        /\ row[i] = RowMax(row)
        /\ \A j \in 1..(i - 1) : row[j] < row[i]) - 1

----------------------------------------------------------------------------
\* _last_action_reward

\* faulty variant: every registered rider is counted, whenever it registered
RewardOverAllRiders(regs, last_ts, now) ==
    LET RECURSIVE Waits(_)
        Waits(S) == IF S = {} THEN 0
                    ELSE LET r == CHOOSE x \in S : TRUE
                         IN (now - regs[r]) + Waits(S \ {r})
    IN -1 * Waits(DOMAIN regs)

\* -1 * sum([(self.current_timestamp - x) for x in rider_registrations if x >= self.last_action_ts])
_last_action_reward(regs, last_ts, now) ==
    LET counted == {r \in DOMAIN regs : regs[r] >= last_ts}
        RECURSIVE Waits(_)
        Waits(S) == IF S = {} THEN 0
                    ELSE LET r == CHOOSE x \in S : TRUE
                         IN (now - regs[r]) + Waits(S \ {r})
    IN -1 * Waits(counted)

----------------------------------------------------------------------------
\* _get_next_floor_tasks

\* the values np.random.random() is given here, in units of 1/Scale
Draws == {0, 5000}

\* np.random.random() > self.epsilon
Exploit(draw, eps) == draw > eps

\* faulty variant: np.random.choice over every action
AnyAction(ts) == 0..(max_floor - 1)

\* list(set([(x.floor - 1) for x in self.tasks]))
ExploreChoices(ts) == {ts[i].floor - 1 : i \in 1..Len(ts)}

\* faulty variant: the timestamps are not compared
ShouldUpdateIgnoringTime(previous, last_ts, now) == previous # <<>>

\* self.previous_state_and_action and self.last_action_ts != self.current_timestamp
ShouldUpdate(previous, last_ts, now) == previous # <<>> /\ last_ts # now

\* faulty variant: the value of the current state is not discounted
undiscounted_q(previous_q, reward, max_current_q, lr) ==
    ((Scale - lr) * previous_q + lr * (reward * QScale + max_current_q)) \div Scale

\* (1 - self.learning_rate) * previous_q + self.learning_rate * (reward + DISCOUNT * max_current_q)
updated_q(previous_q, reward, max_current_q, lr) ==
    ((Scale - lr) * previous_q
        + lr * (reward * QScale + (DISCOUNT * max_current_q) \div Scale)) \div Scale

\* faulty variant: the tasks at next_floor are not left out
AllTaskFloors(ts, next_floor) == [i \in 1..Len(ts) |-> ts[i].floor]

\* [t.floor for t in self.tasks if t.floor != next_floor]
subsequent_floors(ts, next_floor) ==
    LET kept == SelectIn(ts, {t \in Range(ts) : t.floor # next_floor})
    IN [i \in 1..Len(kept) |-> kept[i].floor]

\* faulty variant: the action is returned as the floor, without the + 1
ReturnedQueueOfActions(ts, current_action) ==
    <<current_action>> \o subsequent_floors(ts, current_action)

\* [next_floor] + subsequent_floors
ReturnedQueue(ts, current_action) ==
    LET next_floor == current_action + 1
    IN <<next_floor>> \o subsequent_floors(ts, next_floor)

\* faulty variant: the pending decision is dropped when the task list is empty
EmptyCycleDroppingPending ==
    [q_table |-> q_table,
     previous_state_and_action |-> <<>>,
     last_action_ts |-> NoneTs,
     cycle |-> "empty", branch |-> "none", draw |-> NoDraw, updated |-> FALSE,
     reward |-> 0, ret |-> <<>>]

\* faulty variant: the pending decision is restamped when the task list is empty
EmptyCycleRestamping ==
    [q_table |-> q_table,
     previous_state_and_action |-> previous_state_and_action,
     last_action_ts |-> current_timestamp,
     cycle |-> "empty", branch |-> "none", draw |-> NoDraw, updated |-> FALSE,
     reward |-> 0, ret |-> <<>>]

\* if not self.tasks: return []
EmptyCycle ==
    [q_table |-> q_table,
     previous_state_and_action |-> previous_state_and_action,
     last_action_ts |-> last_action_ts,
     cycle |-> "empty", branch |-> "none", draw |-> NoDraw, updated |-> FALSE,
     reward |-> 0, ret |-> <<>>]

\* The cycle on a non-empty task list, for one exploration draw and one choice of
\* np.random.choice (read only on the explore branch).
DecidedCycle(ts, regs, log, draw, choice) ==
    LET current_state == _get_state(ts, log, elevator_location, max_floor)
        exploit == Exploit(draw, epsilon)
        current_action == IF exploit
                          THEN argmax(QRow(q_table, current_state, max_floor))
                          ELSE choice
        update == ShouldUpdate(previous_state_and_action, last_action_ts, current_timestamp)
        reward == _last_action_reward(regs, last_action_ts, current_timestamp)
        max_current_q == RowMax(QRow(q_table, current_state, max_floor))
        previous_q == QValue(q_table, previous_state_and_action)
    IN [q_table |-> IF update
                    THEN QWrite(q_table, previous_state_and_action,
                                updated_q(previous_q, reward, max_current_q, learning_rate))
                    ELSE q_table,
        previous_state_and_action |-> current_state \o <<current_action>>,
        last_action_ts |-> current_timestamp,
        cycle |-> "decided",
        branch |-> IF exploit THEN "exploit" ELSE "explore",
        draw |-> draw, updated |-> update,
        reward |-> IF update THEN reward ELSE 0,
        ret |-> ReturnedQueue(ts, current_action)]

\* the table has the shape __init__ computes for max_floor = n: one value per action
\* in a row, 2 + 2 * n state dimensions before it
Indexable(table, n) == Len(table.row) = n

\* The cycle on a non-empty task list with a table pickled for fewer floors:
\* self.q_table[current_state] is given more indices than the array has dimensions and
\* raises IndexError, at line 182 when the cycle exploits and at line 193 when it
\* updates; a cycle that explores and does not update never indexes the table.
MisshapenCycle(ts, log, draw, choice) ==
    LET current_state == _get_state(ts, log, elevator_location, max_floor)
        exploit == Exploit(draw, epsilon)
        update == ShouldUpdate(previous_state_and_action, last_action_ts, current_timestamp)
    IN IF exploit \/ update
       THEN [q_table |-> q_table,
             previous_state_and_action |-> previous_state_and_action,
             last_action_ts |-> last_action_ts,
             cycle |-> "raised",
             branch |-> IF exploit THEN "exploit" ELSE "explore",
             draw |-> draw, updated |-> FALSE, reward |-> 0, ret |-> <<>>]
       ELSE [q_table |-> q_table,
             previous_state_and_action |-> current_state \o <<choice>>,
             last_action_ts |-> current_timestamp,
             cycle |-> "decided", branch |-> "explore",
             draw |-> draw, updated |-> FALSE, reward |-> 0,
             ret |-> ReturnedQueue(ts, choice)]

\* Every outcome of one run of _get_next_floor_tasks on the task list ts.
_get_next_floor_tasks(ts, regs, log) ==
    IF ts = <<>> THEN {EmptyCycle}
    ELSE IF Indexable(q_table, max_floor)
         THEN {DecidedCycle(ts, regs, log, draw, choice) :
                 draw \in Draws, choice \in ExploreChoices(ts)}
         ELSE {MisshapenCycle(ts, log, draw, choice) :
                 draw \in Draws, choice \in ExploreChoices(ts)}

\* e.args of the exception a call ends in, each argument as a string: IndexError of
\* [...][0] on an empty list, KeyError of del self.rider_registration_ts[rider_id]
ExceptionArgs(raised, rider_id) ==
    IF raised = "IndexError" THEN <<"list index out of range">>
    ELSE IF raised = "KeyError" THEN <<ToString(rider_id)>>
    ELSE <<>>

\* e.args of the IndexError numpy raises in the cycle
TooManyIndices == <<"too many indices for array">>

\* The effect of the cycle d on the dispatcher, and the record of the call.
Commit(op, rider_id, floor, d, raised) ==
    /\ q_table' = d.q_table
    /\ previous_state_and_action' = d.previous_state_and_action
    /\ last_action_ts' = d.last_action_ts
    /\ call' = [op |-> op, rider_id |-> rider_id, floor |-> floor,
                cycle |-> d.cycle, branch |-> d.branch, draw |-> d.draw,
                updated |-> d.updated, reward |-> d.reward, ret |-> d.ret,
                raised |-> IF d.cycle = "raised" THEN "IndexError" ELSE raised,
                args |-> IF d.cycle = "raised" THEN TooManyIndices
                         ELSE ExceptionArgs(raised, rider_id)]

\* faulty variant: the failed lookup is swallowed and the call returns []
ReturnNothing(op, rider_id, raised) ==
    /\ call' = [op |-> op, rider_id |-> rider_id, floor |-> NoFloor,
                cycle |-> "none", branch |-> "none", draw |-> NoDraw,
                updated |-> FALSE, reward |-> 0, ret |-> <<>>,
                raised |-> "none", args |-> <<>>]
    /\ UNCHANGED <<tasks, request_direction_times, previous_state_and_action,
                   last_action_ts, rider_registration_ts, q_table>>

\* A call that raises before it changes anything.
Raise(op, rider_id, raised) ==
    /\ call' = [op |-> op, rider_id |-> rider_id, floor |-> NoFloor,
                cycle |-> "none", branch |-> "none", draw |-> NoDraw,
                updated |-> FALSE, reward |-> 0, ret |-> <<>>,
                raised |-> raised, args |-> ExceptionArgs(raised, rider_id)]
    /\ UNCHANGED <<tasks, request_direction_times, previous_state_and_action,
                   last_action_ts, rider_registration_ts, q_table>>

Idle ==
    [op |-> "none", rider_id |-> NoRider, floor |-> NoFloor, cycle |-> "none", branch |-> "none", draw |-> NoDraw,
     updated |-> FALSE, reward |-> 0, ret |-> <<>>, raised |-> "none", args |-> <<>>]

----------------------------------------------------------------------------
\* The public operations

\* the first task of rider_id with the given type: [a for a in self.tasks if ...][0]
Matching(ts, rider_id, task_type) ==
    {i \in 1..Len(ts) : ts[i].rider_id = rider_id /\ ts[i].task_type = task_type}

FirstOf(S) == CHOOSE i \in S : \A j \in S : i <= j

\* faulty variant: the head of the list is removed, whatever the task
RemoveHead(ts, i) == Tail(ts)

\* self.tasks.remove(task)
RemoveAt(ts, i) == SubSeq(ts, 1, i - 1) \o SubSeq(ts, i + 1, Len(ts))

\* faulty variant: the registration timestamp is left in place
StillRegistered(regs, rider_id) == regs

\* del self.rider_registration_ts[rider_id]
Unregistered(regs, rider_id) == [r \in DOMAIN regs \ {rider_id} |-> regs[r]]

\* faulty variant: the registration timestamp is not recorded
NotRegistered(regs, rider_id, now) == regs

\* self.rider_registration_ts[rider_id] = self.current_timestamp
Registered(regs, rider_id, now) == (rider_id :> now) @@ regs

register_rider_source(rider_id, source_floor) ==
    LET ts == Append(tasks, Task(rider_id, source_floor, "PICKUP"))
        regs == Registered(rider_registration_ts, rider_id, current_timestamp)
    IN \E d \in _get_next_floor_tasks(ts, regs, request_direction_times) :
        /\ tasks' = ts
        /\ rider_registration_ts' = regs
        /\ Commit("register_rider_source", rider_id, source_floor, d, "none")
        /\ UNCHANGED <<max_floor, elevator_location, current_timestamp,
                       request_direction_times, episode, epsilon, learning_rate,
                       model_pkl>>

register_rider_destination(rider_id, destination_floor) ==
    LET ts == Append(tasks, Task(rider_id, destination_floor, "DROPOFF"))
        log == Append(request_direction_times,
                      [timestamp |-> current_timestamp,
                       direction |-> Direction(destination_floor, elevator_location)])
    IN \E d \in _get_next_floor_tasks(ts, rider_registration_ts, log) :
        /\ tasks' = ts
        /\ request_direction_times' = log
        /\ Commit("register_rider_destination", rider_id, destination_floor, d, "none")
        /\ UNCHANGED <<max_floor, elevator_location, current_timestamp,
                       rider_registration_ts, episode, epsilon, learning_rate,
                       model_pkl>>

report_rider_pickup(rider_id) ==
    LET found == Matching(tasks, rider_id, "PICKUP")
    IN /\ IF found = {}
          THEN Raise("report_rider_pickup", rider_id, "IndexError")
          ELSE LET ts == RemoveAt(tasks, FirstOf(found))
               IN \E d \in _get_next_floor_tasks(ts, rider_registration_ts,
                                                 request_direction_times) :
                    /\ tasks' = ts
                    /\ Commit("report_rider_pickup", rider_id, NoFloor, d, "none")
                    /\ UNCHANGED <<request_direction_times, rider_registration_ts>>
       /\ UNCHANGED <<max_floor, elevator_location, current_timestamp,
                      episode, epsilon, learning_rate, model_pkl>>

report_rider_dropoff(rider_id) ==
    LET found == Matching(tasks, rider_id, "DROPOFF")
    IN /\ IF found = {}
          THEN Raise("report_rider_dropoff", rider_id, "IndexError")
          ELSE LET ts == RemoveAt(tasks, FirstOf(found))
               IN \E d \in _get_next_floor_tasks(ts, rider_registration_ts,
                                                 request_direction_times) :
                    /\ tasks' = ts
                    \* del self.rider_registration_ts[rider_id], when the cycle returned
                    /\ IF d.cycle = "raised"
                       THEN /\ UNCHANGED rider_registration_ts
                            /\ Commit("report_rider_dropoff", rider_id, NoFloor, d, "none")
                       ELSE IF rider_id \in DOMAIN rider_registration_ts
                       THEN /\ rider_registration_ts' =
                                 Unregistered(rider_registration_ts, rider_id)
                            /\ Commit("report_rider_dropoff", rider_id, NoFloor, d, "none")
                       ELSE /\ UNCHANGED rider_registration_ts
                            /\ Commit("report_rider_dropoff", rider_id, NoFloor, d, "KeyError")
                    /\ UNCHANGED request_direction_times
       /\ UNCHANGED <<max_floor, elevator_location, current_timestamp,
                      episode, epsilon, learning_rate, model_pkl>>

----------------------------------------------------------------------------
\* The context the interface supplies between calls

Locations(n) == 2..(2 * n)

set_current_timestamp(t) ==
    /\ t >= current_timestamp
    /\ current_timestamp' = t
    /\ call' = Idle
    /\ UNCHANGED <<max_floor, elevator_location, tasks, request_direction_times,
                   previous_state_and_action, last_action_ts, rider_registration_ts,
                   q_table, episode, epsilon, learning_rate, model_pkl>>

set_elevator_location(location) ==
    /\ location \in Locations(max_floor)
    /\ elevator_location' = location
    /\ call' = Idle
    /\ UNCHANGED <<max_floor, current_timestamp, tasks, request_direction_times,
                   previous_state_and_action, last_action_ts, rider_registration_ts,
                   q_table, episode, epsilon, learning_rate, model_pkl>>

----------------------------------------------------------------------------
\* Construction: load_model_from_file, and reset_model when it raises

\* np.random.uniform(low=-200, high=-100): the values the model draws, in 1/QScale
QLow == -18000
QHigh == -12000

\* every action equally valued, or one action valued above the others
FlatRow(n) == [a \in 1..n |-> QLow]

InitialRows(n) ==
    {FlatRow(n)}
    \cup {[a \in 1..n |-> IF a = p THEN QHigh ELSE QLow] : p \in 1..n}

InitialTables(n) == {[row |-> row, cells |-> <<>>] : row \in InitialRows(n)}

reset_model(table) ==
    [q_table |-> table, episode |-> 0,
     epsilon |-> INITIAL_EPSILON, learning_rate |-> INITIAL_LEARNING_RATE]

\* faulty variant: the episode counter is not incremented
load_model_keeping_episode(file) ==
    [q_table |-> file.q_table, episode |-> file.episode,
     epsilon |-> file.epsilon, learning_rate |-> file.learning_rate]

load_model_from_file(file) ==
    LET ep == file.episode + 1
        decay == ROUND_TO_END_LEARNING_DECAY >= ep /\ ep >= ROUND_TO_START_LEARNING_DECAY
    IN [q_table |-> file.q_table,
        episode |-> ep,
        epsilon |-> IF decay
                    THEN Max2(MIN_EPSILON, (file.epsilon * epsilon_decay_factor) \div Scale)
                    ELSE file.epsilon,
        learning_rate |-> IF decay
                          THEN Max2(MIN_LEARNING_RATE,
                                    (file.learning_rate * learning_decay_factor) \div Scale)
                          ELSE file.learning_rate]

\* What model.pkl holds at the end of the decay window, when an earlier episode saved it.
SavedModels(n) ==
    {[q_table |-> table, episode |-> ROUND_TO_END_LEARNING_DECAY,
      epsilon |-> MIN_EPSILON, learning_rate |-> MIN_LEARNING_RATE] :
        table \in InitialTables(n)}

LoadedModels(n) == {load_model_from_file(file) : file \in SavedModels(n)}

\* __init__: try load_model_from_file, except reset_model
ConstructedModels(n) ==
    {reset_model(table) : table \in InitialTables(n)} \cup LoadedModels(n)

\* the constructed models whose table values every action equally
FlatModels(n) == {m \in ConstructedModels(n) : m.q_table.row = FlatRow(n)}

\* model.pkl: absent, holding bytes that do not unpickle, or holding what
\* pickle.dump((self.q_table, self.episode, self.epsilon, self.learning_rate), file) wrote
NoFile == [kind |-> "missing", content |-> <<>>]
Garbage == [kind |-> "garbage", content |-> <<>>]

pickle_dump(table, ep, eps, lr) == [kind |-> "pickle", content |-> <<table, ep, eps, lr>>]

\* open(...) and pickle.load(file) succeed
Readable(file) == file.kind = "pickle"

\* faulty variant: epsilon and learning_rate are unpacked in the wrong order
pickle_load_swapped(file) ==
    [q_table |-> file.content[1], episode |-> file.content[2],
     epsilon |-> file.content[4], learning_rate |-> file.content[3]]

\* (self.q_table, self.episode, self.epsilon, self.learning_rate) = pickle.load(file)
pickle_load(file) ==
    [q_table |-> file.content[1], episode |-> file.content[2],
     epsilon |-> file.content[3], learning_rate |-> file.content[4]]

\* __init__: try load_model_from_file, except reset_model with the table it draws
ModelAtConstruction(file, table) ==
    IF Readable(file) THEN load_model_from_file(pickle_load(file)) ELSE reset_model(table)

\* the file behind a constructed model: none behind a reset one
FileBehind(m) ==
    IF m.episode = 0 THEN NoFile
    ELSE LET saved == CHOOSE file \in SavedModels(Len(m.q_table.row)) :
                            file.q_table = m.q_table
         IN pickle_dump(saved.q_table, saved.episode, saved.epsilon, saved.learning_rate)

\* __init__(elevator_conf, max_floor), with the model m it ends up with
Construct(n, location, m) ==
    /\ max_floor = n
    /\ elevator_location = location
    /\ current_timestamp = 0
    /\ tasks = <<>>
    /\ request_direction_times = <<>>
    /\ previous_state_and_action = <<>>
    /\ last_action_ts = NoneTs
    /\ rider_registration_ts = <<>>
    /\ q_table = m.q_table
    /\ episode = m.episode
    /\ epsilon = m.epsilon
    /\ learning_rate = m.learning_rate
    /\ model_pkl = FileBehind(m)
    /\ call = Idle

----------------------------------------------------------------------------
\* the callers that keep no record of the riders' trips
Untracked == <<>>

\* The callers: each public operation with the arguments a caller passes, the task
\* list, the direction log and the clock capped. The callers report the tasks that are
\* pending, and none catches what a call raises: the run ends there.

Running == call.raised = "none"

RegisterSource(riders, maxTasks) ==
    \E r \in riders, f \in 1..max_floor :
        /\ Running
        /\ Len(tasks) < maxTasks
        /\ register_rider_source(r, f)
        /\ UNCHANGED rider_stage

RegisterDestination(riders, maxTasks, maxRecords) ==
    \E r \in riders, f \in 1..max_floor :
        /\ Running
        /\ Len(tasks) < maxTasks
        /\ Len(request_direction_times) < maxRecords
        /\ register_rider_destination(r, f)
        /\ UNCHANGED rider_stage

ReportPickup(riders) ==
    \E r \in riders :
        /\ Running
        /\ Matching(tasks, r, "PICKUP") # {}
        /\ report_rider_pickup(r)
        /\ UNCHANGED rider_stage

ReportDropoff(riders) ==
    \E r \in riders :
        /\ Running
        /\ Matching(tasks, r, "DROPOFF") # {}
        /\ report_rider_dropoff(r)
        /\ UNCHANGED rider_stage

\* a rider asks for a pickup when it has none pending
RegisterSourceIfNone(riders) ==
    \E r \in riders, f \in 1..max_floor :
        /\ Running
        /\ Matching(tasks, r, "PICKUP") = {}
        /\ register_rider_source(r, f)
        /\ UNCHANGED rider_stage

\* the reports of a task that is not pending
MisreportPickup(riders) ==
    \E r \in riders :
        /\ Running
        /\ Matching(tasks, r, "PICKUP") = {}
        /\ report_rider_pickup(r)
        /\ UNCHANGED rider_stage

MisreportDropoff(riders) ==
    \E r \in riders :
        /\ Running
        /\ Matching(tasks, r, "DROPOFF") = {}
        /\ report_rider_dropoff(r)
        /\ UNCHANGED rider_stage

Tick(maxTime) ==
    /\ Running
    /\ current_timestamp < maxTime
    /\ set_current_timestamp(current_timestamp + 1)
    /\ UNCHANGED rider_stage

Move(locations) ==
    \E l \in locations :
        /\ Running
        /\ l # elevator_location
        /\ set_elevator_location(l)
        /\ UNCHANGED rider_stage

----------------------------------------------------------------------------
\* Spec: one rider, two floors, the elevator at floor 1, the clock running

Riders == {1}

Init ==
    /\ \E m \in FlatModels(2) : Construct(2, 2, m)
    /\ rider_stage = Untracked

Next ==
    \/ RegisterSource(Riders, MaxTasks)
    \/ RegisterDestination(Riders, MaxTasks, MaxRecords)
    \/ ReportPickup(Riders)
    \/ ReportDropoff(Riders)
    \/ Tick(MaxTime)

Spec == Init /\ [][Next]_vars

----------------------------------------------------------------------------
\* SpecFloors: one rider, one or two floors, the elevator moving, the clock at 0

MaxTasksFloors == 4
MaxRecordsFloors == 1

InitFloors ==
    /\ \E n \in {1, 2} : \E m \in LoadedModels(n) \cap FlatModels(n) : Construct(n, 2, m)
    /\ rider_stage = Untracked

NextFloors ==
    \/ RegisterSource({1}, MaxTasksFloors)
    \/ RegisterDestination({1}, MaxTasksFloors, MaxRecordsFloors)
    \/ ReportPickup({1})
    \/ ReportDropoff({1})
    \/ Move(Locations(max_floor))

SpecFloors == InitFloors /\ [][NextFloors]_vars

----------------------------------------------------------------------------
\* SpecQueue: one rider, three floors, the elevator at floor 1, the clock at 0

MaxTasksQueue == 2
MaxRecordsQueue == 1

InitQueue ==
    /\ \E m \in ConstructedModels(3) : Construct(3, 2, m)
    /\ rider_stage = Untracked

NextQueue ==
    \/ RegisterSource({1}, MaxTasksQueue)
    \/ RegisterDestination({1}, MaxTasksQueue, MaxRecordsQueue)
    \/ ReportPickup({1})
    \/ ReportDropoff({1})

SpecQueue == InitQueue /\ [][NextQueue]_vars

----------------------------------------------------------------------------
\* SpecScenario: the end-to-end scenario, max_floor = 5, elevator at floor 1, t = 0

MaxTasksScenario == 1
MaxRecordsScenario == 1

InitScenario ==
    /\ \E m \in ConstructedModels(5) : Construct(5, 2, m)
    /\ rider_stage = Untracked

NextScenario ==
    \/ RegisterSource({1}, MaxTasksScenario)
    \/ RegisterDestination({1}, MaxTasksScenario, MaxRecordsScenario)
    \/ ReportPickup({1})
    \/ ReportDropoff({1})

SpecScenario == InitScenario /\ [][NextScenario]_vars

----------------------------------------------------------------------------
\* SpecForced: a harness forces epsilon to 0 on the constructed dispatcher

MaxTasksForced == 2
MaxRecordsForced == 1

ForcedModels(n) == {[m EXCEPT !.epsilon = 0] : m \in LoadedModels(n)}

InitForced ==
    /\ \E m \in ForcedModels(3) : Construct(3, 2, m)
    /\ rider_stage = Untracked

NextForced ==
    \/ RegisterSource({1}, MaxTasksForced)
    \/ RegisterDestination({1}, MaxTasksForced, MaxRecordsForced)
    \/ ReportPickup({1})
    \/ ReportDropoff({1})

SpecForced == InitForced /\ [][NextForced]_vars

----------------------------------------------------------------------------
\* SpecTrend: one rider travelling again and again between two floors, the clock at 0

MaxTasksTrend == 1
MaxRecordsTrend == 7

InitTrend ==
    /\ \E m \in {reset_model(table) : table \in InitialTables(2)} : Construct(2, 2, m)
    /\ rider_stage = Untracked

NextTrend ==
    \/ RegisterSource({1}, MaxTasksTrend)
    \/ RegisterDestination({1}, MaxTasksTrend, MaxRecordsTrend)
    \/ ReportPickup({1})
    \/ ReportDropoff({1})

SpecTrend == InitTrend /\ [][NextTrend]_vars

----------------------------------------------------------------------------
\* SpecLifecycle: two riders, two floors, the clock running. The callers keep each
\* rider's stage and call in trip order: register_rider_source, report_rider_pickup,
\* register_rider_destination, report_rider_dropoff. One departure from that order is
\* modelled: a destination registered for a rider that registered no source (a stray),
\* whose dropoff is then reported.

MaxRecordsLifecycle == 1
MaxTimeLifecycle == 1

RidersLifecycle == {1, 2}

Stage(r, from, to) ==
    /\ rider_stage[r] = from
    /\ rider_stage' = [rider_stage EXCEPT ![r] = to]

RiderRegistersSource(riders) ==
    \E r \in riders, f \in 1..max_floor :
        Running /\ Stage(r, "idle", "waiting") /\ register_rider_source(r, f)

RiderPickedUp(riders) ==
    \E r \in riders :
        Running /\ Stage(r, "waiting", "picked") /\ report_rider_pickup(r)

RiderRegistersDestination(riders, maxRecords) ==
    \E r \in riders, f \in 1..max_floor :
        /\ Running
        /\ Len(request_direction_times) < maxRecords
        /\ Stage(r, "picked", "riding")
        /\ register_rider_destination(r, f)

RiderDroppedOff(riders) ==
    \E r \in riders :
        Running /\ Stage(r, "riding", "idle") /\ report_rider_dropoff(r)

StrayRegistersDestination(riders, maxRecords) ==
    \E r \in riders, f \in 1..max_floor :
        /\ Running
        /\ Len(request_direction_times) < maxRecords
        /\ Stage(r, "idle", "stray")
        /\ register_rider_destination(r, f)

StrayDroppedOff(riders) ==
    \E r \in riders :
        Running /\ Stage(r, "stray", "stray") /\ report_rider_dropoff(r)

InitLifecycle ==
    /\ \E m \in LoadedModels(2) \cap FlatModels(2) : Construct(2, 2, m)
    /\ rider_stage = [r \in RidersLifecycle |-> "idle"]

NextLifecycle ==
    \/ RiderRegistersSource(RidersLifecycle)
    \/ RiderPickedUp(RidersLifecycle)
    \/ RiderRegistersDestination(RidersLifecycle, MaxRecordsLifecycle)
    \/ RiderDroppedOff(RidersLifecycle)
    \/ StrayRegistersDestination(RidersLifecycle, MaxRecordsLifecycle)
    \/ StrayDroppedOff(RidersLifecycle)
    \/ Tick(MaxTimeLifecycle)

SpecLifecycle == InitLifecycle /\ [][NextLifecycle]_vars

----------------------------------------------------------------------------
\* SpecEpisodes: one rider, two floors, the clock running; the rider asks for a pickup
\* when it has none pending. The simulation saves the model, the file is removed or
\* damaged between runs, and a new run constructs the dispatcher again from the file it
\* finds.

MaxTimeEpisodes == 1
MaxEpisodes == 3

\* the episode counters of the files the first run may find: a model saved by the first
\* episode, and one saved two episodes before the end of the decay window
StartEpisodes == {0, ROUND_TO_END_LEARNING_DECAY - 2}

\* What model.pkl may hold before the first run: nothing, garbage, or a model an earlier
\* episode saved, for this max_floor or (by the first episode) for one floor less.
StoredFiles(n) ==
    {NoFile, Garbage}
    \cup {pickle_dump([row |-> FlatRow(k), cells |-> <<>>], 0,
                      INITIAL_EPSILON, INITIAL_LEARNING_RATE) : k \in {n - 1, n}}
    \cup {pickle_dump([row |-> FlatRow(k), cells |-> <<>>], ROUND_TO_END_LEARNING_DECAY - 2,
                      MIN_EPSILON + 1, MIN_LEARNING_RATE + 1) : k \in {n}}

\* the record of a construction in `call'
Constructed == [Idle EXCEPT !.op = "__init__"]

\* __init__(elevator_conf, max_floor) with model.pkl = file; table is what reset_model
\* draws when the load raises
ConstructFrom(n, location, file, table) ==
    LET m == ModelAtConstruction(file, table)
    IN /\ max_floor = n
       /\ elevator_location = location
       /\ current_timestamp = 0
       /\ tasks = <<>>
       /\ request_direction_times = <<>>
       /\ previous_state_and_action = <<>>
       /\ last_action_ts = NoneTs
       /\ rider_registration_ts = <<>>
       /\ q_table = m.q_table
       /\ episode = m.episode
       /\ epsilon = m.epsilon
       /\ learning_rate = m.learning_rate
       /\ model_pkl = file
       /\ call = Constructed

\* a new run: the dispatcher is constructed again, the clock and the elevator start over
NewEpisode(maxEpisodes) ==
    \E table \in {[row |-> FlatRow(max_floor), cells |-> <<>>]} :
        LET m == ModelAtConstruction(model_pkl, table)
        IN /\ \E start \in StartEpisodes : m.episode - start \in 0..maxEpisodes
           /\ elevator_location' = 2
           /\ current_timestamp' = 0
           /\ tasks' = <<>>
           /\ request_direction_times' = <<>>
           /\ previous_state_and_action' = <<>>
           /\ last_action_ts' = NoneTs
           /\ rider_registration_ts' = <<>>
           /\ q_table' = m.q_table
           /\ episode' = m.episode
           /\ epsilon' = m.epsilon
           /\ learning_rate' = m.learning_rate
           /\ call' = Constructed
           /\ UNCHANGED <<max_floor, model_pkl, rider_stage>>

save_model_to_file ==
    /\ model_pkl' = pickle_dump(q_table, episode, epsilon, learning_rate)
    /\ call' = [Idle EXCEPT !.op = "save_model_to_file"]
    /\ UNCHANGED <<max_floor, elevator_location, current_timestamp, tasks,
                   request_direction_times, previous_state_and_action, last_action_ts,
                   rider_registration_ts, q_table, episode, epsilon, learning_rate>>

Save ==
    /\ Running
    /\ model_pkl # pickle_dump(q_table, episode, epsilon, learning_rate)
    /\ save_model_to_file
    /\ UNCHANGED rider_stage

\* the file is removed or overwritten with garbage behind the program's back
Damage ==
    /\ Readable(model_pkl)
    /\ model_pkl' \in {NoFile, Garbage}
    /\ call' = Idle
    /\ UNCHANGED <<max_floor, elevator_location, current_timestamp, tasks,
                   request_direction_times, previous_state_and_action, last_action_ts,
                   rider_registration_ts, q_table, episode, epsilon, learning_rate,
                   rider_stage>>

InitEpisodes ==
    /\ \E file \in StoredFiles(2) :
            ConstructFrom(2, 2, file, [row |-> FlatRow(2), cells |-> <<>>])
    /\ rider_stage = Untracked

NextEpisodes ==
    \/ RegisterSourceIfNone({1})
    \/ ReportPickup({1})
    \/ Tick(MaxTimeEpisodes)
    \/ Save
    \/ Damage
    \/ NewEpisode(MaxEpisodes)

SpecEpisodes == InitEpisodes /\ [][NextEpisodes]_vars

----------------------------------------------------------------------------
\* SpecMisuse: two riders, two floors, the clock at 0; the callers also report pickups
\* and dropoffs of tasks that are not pending

MaxTasksMisuse == 2
MaxRecordsMisuse == 1

InitMisuse ==
    /\ \E m \in FlatModels(2) : Construct(2, 2, m)
    /\ rider_stage = Untracked

NextMisuse ==
    \/ RegisterSource({1, 2}, MaxTasksMisuse)
    \/ RegisterDestination({1, 2}, MaxTasksMisuse, MaxRecordsMisuse)
    \/ ReportPickup({1, 2})
    \/ ReportDropoff({1, 2})
    \/ MisreportPickup({1, 2})
    \/ MisreportDropoff({1, 2})

SpecMisuse == InitMisuse /\ [][NextMisuse]_vars

----------------------------------------------------------------------------
\* SpecReward: one rider, one floor, the clock running for two ticks

MaxTasksReward == 2
MaxRecordsReward == 1
MaxTimeReward == 2

InitReward ==
    /\ \E m \in LoadedModels(1) \cap FlatModels(1) : Construct(1, 2, m)
    /\ rider_stage = Untracked

NextReward ==
    \/ RegisterSource({1}, MaxTasksReward)
    \/ RegisterDestination({1}, MaxTasksReward, MaxRecordsReward)
    \/ ReportPickup({1})
    \/ ReportDropoff({1})
    \/ Tick(MaxTimeReward)

SpecReward == InitReward /\ [][NextReward]_vars

----------------------------------------------------------------------------
\* What the properties below read off a state

\* the state the last non-empty decision cycle encoded, and the action it chose
EncodedState ==
    SubSeq(previous_state_and_action, 1, Len(previous_state_and_action) - 1)

ChosenAction == previous_state_and_action[Len(previous_state_and_action)]

\* the last call ran its decision cycle on a non-empty task list
Decided == call.cycle = "decided"

TaskFloors == {tasks[i].floor : i \in 1..Len(tasks)}

PendingAt(task_type, f) ==
    Cardinality({i \in 1..Len(tasks) :
                    tasks[i].task_type = task_type /\ tasks[i].floor = f})

PickupVector == SubSeq(EncodedState, 3, 2 + max_floor)

DropoffVector == SubSeq(EncodedState, 3 + max_floor, 2 + 2 * max_floor)

AscendingCounts(task_type) ==
    [f \in 1..max_floor |->
        IF PendingAt(task_type, f) > MAX_FLOOR_TASKS_TO_COUNT
        THEN MAX_FLOOR_TASKS_TO_COUNT ELSE PendingAt(task_type, f)]

UniqueMax(row) == \E i \in 1..Len(row) : \A j \in 1..Len(row) : j # i => row[j] < row[i]

UniqueMaxAction(row) ==
    (CHOOSE i \in 1..Len(row) : \A j \in 1..Len(row) : j # i => row[j] < row[i]) - 1

RECURSIVE FloorsExcept(_, _)
FloorsExcept(ts, f) ==
    IF ts = <<>> THEN <<>>
    ELSE IF Head(ts).floor = f THEN FloorsExcept(Tail(ts), f)
         ELSE <<Head(ts).floor>> \o FloorsExcept(Tail(ts), f)

----------------------------------------------------------------------------
\* C1 (SpecScenario): after every non-empty decision cycle the pickup vector and the
\* dropoff vector of the encoded state are in ascending floor order: entry i is
\* min(number of pending tasks of that type at floor i, MAX_FLOOR_TASKS_TO_COUNT);
\* with max_floor = 5 and one PICKUP at floor 3 the vectors are [0,0,1,0,0] and
\* [0,0,0,0,0].
C1_VectorsAscendingByFloor ==
    Decided =>
        /\ PickupVector = AscendingCounts("PICKUP")
        /\ DropoffVector = AscendingCounts("DROPOFF")

\* C2 (Spec): a decision cycle updates the Q table only if a pending decision
\* exists and its timestamp differs from the current one; every non-empty cycle
\* leaves a pending decision stamped with the current timestamp, so neither the first
\* non-empty cycle nor the second of two non-empty cycles at one timestamp updates.
C2_UpdateOnlyAfterTimePassed ==
    [][/\ call'.updated =>
            /\ previous_state_and_action # <<>>
            /\ last_action_ts # current_timestamp
       /\ call'.cycle = "decided" =>
            /\ previous_state_and_action' # <<>>
            /\ last_action_ts' = current_timestamp']_vars

C2_Witness == Decided /\ call.updated

\* C3 as claimed (Spec): a public operation whose decision cycle runs on an empty task
\* list returns the empty queue without raising and leaves the Q table, the pending
\* decision and its timestamp unchanged.
C3_EmptyCycleReturnsWithoutRaising ==
    [][call'.cycle = "empty" =>
            /\ call'.ret = <<>>
            /\ call'.raised = "none"
            /\ q_table' = q_table
            /\ previous_state_and_action' = previous_state_and_action
            /\ last_action_ts' = last_action_ts]_vars

\* C3 as amended (Spec): the decision cycle on an empty task list yields the empty
\* queue and leaves the Q table, the pending decision and its timestamp unchanged;
\* the operation returns that queue, unless it is report_rider_dropoff for a rider
\* with no registration timestamp, which raises KeyError after the cycle.
C3_EmptyCycleChangesNothing ==
    [][call'.cycle = "empty" =>
            /\ call'.ret = <<>>
            /\ \/ call'.raised = "none"
               \/ /\ call'.op = "report_rider_dropoff"
                  /\ call'.raised = "KeyError"
                  /\ call'.rider_id \notin DOMAIN rider_registration_ts
            /\ q_table' = q_table
            /\ previous_state_and_action' = previous_state_and_action
            /\ last_action_ts' = last_action_ts]_vars

C3_Witness ==
    /\ call.cycle = "empty"
    /\ call.op = "report_rider_pickup"
    /\ call.raised = "none"
    /\ previous_state_and_action # <<>>
    /\ last_action_ts # current_timestamp

\* C4 (SpecQueue): after a non-empty decision cycle the returned queue starts with the
\* chosen floor (action + 1), the chosen floor occurs nowhere else in it, the rest is
\* the floors of the pending tasks not at the chosen floor in task-list order, and
\* every floor holding a pending task occurs in the queue.
C4_QueueChosenFloorFirst ==
    Decided =>
        LET chosen == ChosenAction + 1
        IN /\ call.ret # <<>>
           /\ call.ret[1] = chosen
           /\ \A i \in 2..Len(call.ret) : call.ret[i] # chosen
           /\ Tail(call.ret) = FloorsExcept(tasks, chosen)
           /\ TaskFloors \subseteq Range(call.ret)

\* the chosen floor holds no task, and two other floors follow it
C4_Witness ==
    /\ Decided
    /\ ChosenAction + 1 \notin TaskFloors
    /\ Len(call.ret) = 3
    /\ call.ret[2] > call.ret[3]

\* C5 (SpecTrend): the trend in the encoded state is classified from the W = 10 most
\* recent direction records: MOSTLY_UP if at least 70% of the window (7 of 10) is UP,
\* MOSTLY_DOWN if at least 70% is DOWN, UNDETERMINED otherwise.
TrailingWindow(dirs) ==
    SubSeq(dirs, Max2(1, Len(dirs) - REQUESTS_TO_CONSIDER_FOR_DIRECTION_TREND + 1), Len(dirs))

TrendOfTrailingWindow(log) ==
    LET window == TrailingWindow(directions_list(log))
        ups == Cardinality({i \in 1..Len(window) : window[i] = "UP"})
        downs == Cardinality({i \in 1..Len(window) : window[i] = "DOWN"})
    IN IF 10 * ups >= 7 * REQUESTS_TO_CONSIDER_FOR_DIRECTION_TREND THEN MOSTLY_UP
       ELSE IF 10 * downs >= 7 * REQUESTS_TO_CONSIDER_FOR_DIRECTION_TREND THEN MOSTLY_DOWN
       ELSE UNDETERMINED

C5_TrendFromTrailingWindow ==
    Decided => EncodedState[2] = TrendOfTrailingWindow(request_direction_times)

\* C6 (SpecQueue): with epsilon equal to 1 every non-empty decision cycle explores, and
\* an exploring cycle chooses a floor that holds a pending task.
C6_ExploreAmongTaskFloors ==
    /\ (Decided /\ epsilon = INITIAL_EPSILON) => call.branch = "explore"
    /\ call.branch = "explore" => ChosenAction + 1 \in TaskFloors

\* epsilon is 1, tasks are pending at two floors, and the Q table prefers a third
C6_Witness ==
    /\ Decided
    /\ epsilon = INITIAL_EPSILON
    /\ call.branch = "explore"
    /\ Cardinality(TaskFloors) = 2
    /\ argmax(QRow(q_table, EncodedState, max_floor)) + 1 \notin TaskFloors

\* The row of the state a cycle encodes, in the table the cycle started with.
RowBeforeCycle ==
    QRow(q_table,
         SubSeq(previous_state_and_action', 1, Len(previous_state_and_action') - 1),
         max_floor)

\* C7 as claimed (SpecForced): with epsilon equal to 0 and a unique maximum at a* in
\* the row of the encoded state, a non-empty decision cycle selects a* for every draw
\* in [0,1), a draw of exactly 0 included.
C7_ExploitForEveryDraw ==
    [][(/\ call'.cycle = "decided"
        /\ epsilon = 0
        /\ UniqueMax(RowBeforeCycle))
       => previous_state_and_action'[Len(previous_state_and_action')]
            = UniqueMaxAction(RowBeforeCycle)]_vars

\* C7 as amended (SpecForced): with epsilon equal to 0 and a unique maximum at a* in
\* the row of the encoded state, a non-empty decision cycle selects a* for every draw
\* greater than 0, also when floor a* + 1 holds no pending task; a draw of exactly 0
\* does not exceed epsilon and explores.
C7_ExploitForEveryPositiveDraw ==
    [][/\ (/\ call'.cycle = "decided"
           /\ epsilon = 0
           /\ call'.draw > 0
           /\ UniqueMax(RowBeforeCycle))
          => previous_state_and_action'[Len(previous_state_and_action')]
                = UniqueMaxAction(RowBeforeCycle)
       /\ (call'.cycle = "decided" /\ epsilon = 0 /\ call'.draw = 0)
          => call'.branch = "explore"]_vars

C7_Witness ==
    /\ Decided
    /\ epsilon = 0
    /\ call.draw > 0
    /\ ~call.updated
    /\ UniqueMax(QRow(q_table, EncodedState, max_floor))
    /\ ChosenAction = UniqueMaxAction(QRow(q_table, EncodedState, max_floor))
    /\ ChosenAction + 1 \notin TaskFloors

\* The first call of the end-to-end scenario: register_rider_source(1, 3) with
\* max_floor = 5, the elevator at floor 1, t = 0 and no task pending.
ScenarioCall ==
    /\ max_floor = 5
    /\ elevator_location = 2
    /\ current_timestamp = 0
    /\ tasks = <<>>
    /\ call'.op = "register_rider_source"
    /\ call'.rider_id = 1
    /\ call'.floor = 3

\* C8 as claimed (SpecScenario): the scenario call leaves the task set equal to
\* {PICKUP@3} and returns a queue whose first element is floor 3, whatever the Q table
\* and epsilon of the constructed dispatcher and whatever the draw.
C8_ScenarioReturnsFloor3First ==
    [][ScenarioCall =>
            /\ tasks' = <<Task(1, 3, "PICKUP")>>
            /\ call'.ret # <<>>
            /\ call'.ret[1] = 3]_vars

\* C8 as amended (SpecScenario): the scenario call leaves the task set equal to
\* {PICKUP@3} and returns a queue that holds floor 3; floor 3 is its first element
\* whenever the cycle explores, which it always does with epsilon = 1 (after
\* reset_model); when it exploits (a loaded model, draw > epsilon) the first element
\* is the floor of the first maximum of the Q table row, and floor 3 follows it
\* unless that floor is 3.
C8_ScenarioReturnsFloor3 ==
    [][ScenarioCall =>
            /\ tasks' = <<Task(1, 3, "PICKUP")>>
            /\ call'.cycle = "decided"
            /\ 3 \in Range(call'.ret)
            /\ epsilon = INITIAL_EPSILON => call'.branch = "explore"
            /\ call'.branch = "explore" => call'.ret = <<3>>
            /\ call'.branch = "exploit" =>
                LET first == CHOOSE a \in 1..max_floor :
                                /\ \A b \in 1..max_floor : RowBeforeCycle[b] <= RowBeforeCycle[a]
                                /\ \A b \in 1..(a - 1) : RowBeforeCycle[b] < RowBeforeCycle[a]
                IN call'.ret = IF first = 3 THEN <<3>> ELSE <<first, 3>>]_vars

C8_Witness ==
    /\ max_floor = 5
    /\ call.op = "register_rider_source"
    /\ call.rider_id = 1
    /\ call.floor = 3
    /\ current_timestamp = 0
    /\ tasks = <<Task(1, 3, "PICKUP")>>
    /\ call.branch = "exploit"
    /\ call.ret = <<3>>

\* C9 (SpecFloors): every pickup count and every dropoff count of an encoded state
\* lies in 0..MAX_FLOOR_TASKS_TO_COUNT, however many tasks are queued at a floor.
C9_CountsClamped ==
    Decided =>
        \A i \in 3..Len(EncodedState) : EncodedState[i] \in 0..MAX_FLOOR_TASKS_TO_COUNT

\* four PICKUP tasks at one floor encode as 3
C9_Witness ==
    /\ Decided
    /\ \E f \in 1..max_floor :
        /\ PendingAt("PICKUP", f) = 4
        /\ Cardinality({i \in 1..Len(PickupVector) : PickupVector[i] = 3}) = 1

\* C10 (SpecFloors): the encoded state has length 2 + 2 * max_floor and indexes the
\* Q table: location_index in 0..max_floor-1, trend_code in {0,1,2}, and each of the
\* 2 * max_floor counts in 0..MAX_FLOOR_TASKS_TO_COUNT.
C10_StateIndexesTable ==
    Decided =>
        /\ Len(EncodedState) = 2 + 2 * max_floor
        /\ EncodedState[1] \in 0..(max_floor - 1)
        /\ EncodedState[2] \in {MOSTLY_UP, MOSTLY_DOWN, UNDETERMINED}
        /\ \A i \in 3..(2 + 2 * max_floor) :
                EncodedState[i] \in 0..MAX_FLOOR_TASKS_TO_COUNT

\* the elevator between two floors, tasks of both types pending
C10_Witness ==
    /\ Decided
    /\ call.raised = "none"
    /\ elevator_location = 3
    /\ EncodedState[1] = 1
    /\ \E i, j \in 1..Len(tasks) :
        tasks[i].task_type = "PICKUP" /\ tasks[j].task_type = "DROPOFF"

----------------------------------------------------------------------------
\* What the properties of the registrations and of the reward read off a step

RECURSIVE TotalWait(_, _, _)
\* the time the riders of the set have waited since they registered, added up
TotalWait(regs, riders, now) ==
    IF riders = {} THEN 0
    ELSE LET r == CHOOSE x \in riders : TRUE
         IN (now - regs[r]) + TotalWait(regs, riders \ {r}, now)

RECURSIVE WithoutFirst(_, _, _)
\* the task list without the first task of the rider and the type
WithoutFirst(ts, rider_id, task_type) ==
    IF ts = <<>> THEN <<>>
    ELSE IF Head(ts).rider_id = rider_id /\ Head(ts).task_type = task_type THEN Tail(ts)
         ELSE <<Head(ts)>> \o WithoutFirst(Tail(ts), rider_id, task_type)

\* C11 (SpecLifecycle): report_rider_dropoff(r) that returns has removed r's DROPOFF
\* task, has run the decision cycle with r's registration timestamp still present (the
\* reward of an update counts r) and has deleted the timestamp afterwards, so r has no
\* entry when it returns; no other operation deletes a registration timestamp.
C11_DropoffDeletesAfterCycle ==
    [][/\ (call'.op = "report_rider_dropoff" /\ call'.raised = "none") =>
            LET r == call'.rider_id
                counted == {q \in DOMAIN rider_registration_ts :
                                rider_registration_ts[q] >= last_action_ts}
            IN /\ r \in DOMAIN rider_registration_ts
               /\ tasks' = WithoutFirst(tasks, r, "DROPOFF")
               /\ call'.cycle \in {"empty", "decided"}
               /\ call'.updated =>
                    call'.reward = -TotalWait(rider_registration_ts, counted, current_timestamp)
               /\ DOMAIN rider_registration_ts' = DOMAIN rider_registration_ts \ {r}
               /\ \A q \in DOMAIN rider_registration_ts' :
                    rider_registration_ts'[q] = rider_registration_ts[q]
       /\ call'.op # "report_rider_dropoff" =>
            DOMAIN rider_registration_ts \subseteq DOMAIN rider_registration_ts']_vars

\* the dropoff updated with a reward that the riders still registered cannot account
\* for: the rider dropped off was counted
C11_Witness ==
    /\ call.op = "report_rider_dropoff"
    /\ call.raised = "none"
    /\ call.updated
    /\ call.rider_id \notin DOMAIN rider_registration_ts
    /\ call.reward <
            -TotalWait(rider_registration_ts, DOMAIN rider_registration_ts, current_timestamp)

\* the task type a report operation looks up
Reported(op) == IF op = "report_rider_pickup" THEN "PICKUP" ELSE "DROPOFF"

\* the last step reported a task of the rider that was not pending
Misreport ==
    /\ call'.op \in {"report_rider_pickup", "report_rider_dropoff"}
    /\ \A i \in 1..Len(tasks) :
            ~(tasks[i].rider_id = call'.rider_id /\ tasks[i].task_type = Reported(call'.op))

\* C12 as claimed (SpecMisuse): a report of a task that is not pending ends in a lookup
\* error whose arguments name the rider and the task type, raised before any task is
\* removed and before any decision cycle runs.
C12_MisreportNamesRiderAndTask ==
    [][Misreport =>
            /\ call'.raised = "IndexError"
            /\ ToString(call'.rider_id) \in Range(call'.args)
            /\ Reported(call'.op) \in Range(call'.args)
            /\ call'.cycle = "none"
            /\ tasks' = tasks]_vars

\* C12 as amended (SpecMisuse): a report of a task that is not pending ends in an
\* IndexError that nothing catches, whose only argument is "list index out of range"
\* and names neither the rider nor the task type; it is raised before any task is
\* removed and before any decision cycle runs, so the task list, the registrations, the
\* pending decision and the Q table are unchanged.
C12_MisreportRaisesIndexError ==
    [][Misreport =>
            /\ call'.raised = "IndexError"
            /\ call'.args = <<"list index out of range">>
            /\ call'.cycle = "none"
            /\ call'.ret = <<>>
            /\ tasks' = tasks
            /\ rider_registration_ts' = rider_registration_ts
            /\ previous_state_and_action' = previous_state_and_action
            /\ last_action_ts' = last_action_ts
            /\ q_table' = q_table]_vars

\* a pickup reported for a rider whose only pending task is a DROPOFF
C12_Witness ==
    /\ call.op = "report_rider_pickup"
    /\ call.raised = "IndexError"
    /\ \E i \in 1..Len(tasks) :
            tasks[i].rider_id = call.rider_id /\ tasks[i].task_type = "DROPOFF"

----------------------------------------------------------------------------
\* What the properties of the model file read off a step

\* the step constructed the dispatcher, and load_model_from_file did not raise
Loaded == call'.op = "__init__" /\ model_pkl.kind = "pickle"

\* the step constructed the dispatcher, and load_model_from_file raised
LoadFailed == call'.op = "__init__" /\ model_pkl.kind # "pickle"

\* the file is missing, corrupt, or holds a table of another shape than max_floor asks for
Unusable(file, n) == file.kind # "pickle" \/ Len(file.content[1].row) # n

\* C13 (SpecEpisodes): a construction that finds the file missing, corrupt or holding a
\* table of a shape that does not fit max_floor ends with a table of the configured
\* shape, episode = 0, epsilon = INITIAL_EPSILON and learning_rate =
\* INITIAL_LEARNING_RATE, and no decision cycle raises afterwards.
C13_UnusableFileIsReset ==
    /\ (call.op = "__init__" /\ Unusable(model_pkl, max_floor)) =>
            /\ Len(q_table.row) = max_floor
            /\ episode = 0
            /\ epsilon = INITIAL_EPSILON
            /\ learning_rate = INITIAL_LEARNING_RATE
    /\ call.cycle # "raised"

\* C14 (SpecEpisodes): save_model_to_file followed by a load that succeeds restores
\* exactly the saved Q table and sets episode to the saved episode plus 1; episode
\* changes only at a construction, to the episode in the file plus 1 when the load
\* succeeds and to 0 when it fails.
C14_SaveLoadRoundTrip ==
    [][/\ call'.op = "save_model_to_file" =>
            /\ model_pkl'.kind = "pickle"
            /\ model_pkl'.content[1] = q_table
            /\ model_pkl'.content[2] = episode
       /\ Loaded =>
            /\ q_table' = model_pkl.content[1]
            /\ episode' = model_pkl.content[2] + 1
       /\ (Loaded /\ model_pkl.content[1] = q_table /\ model_pkl.content[2] = episode) =>
            /\ q_table' = q_table
            /\ episode' = episode + 1
       /\ LoadFailed => episode' = 0
       /\ call'.op # "__init__" => episode' = episode]_vars

\* a table that a Q-update has written was saved and is restored by the next run
C14_Witness ==
    /\ call.op = "__init__"
    /\ model_pkl.kind = "pickle"
    /\ q_table = model_pkl.content[1]
    /\ episode = model_pkl.content[2] + 1
    /\ DOMAIN q_table.cells # {}

\* the episode lies in the decay window
Decaying(ep) ==
    ROUND_TO_START_LEARNING_DECAY <= ep /\ ep <= ROUND_TO_END_LEARNING_DECAY

\* C15 (SpecEpisodes): epsilon stays within [MIN_EPSILON, INITIAL_EPSILON] and
\* learning_rate within [MIN_LEARNING_RATE, INITIAL_LEARNING_RATE]; a load leaves both
\* no higher than the saved values; it multiplies them by the decay factor, clamped at
\* the floor value, exactly when the incremented episode lies in
\* [ROUND_TO_START_LEARNING_DECAY, ROUND_TO_END_LEARNING_DECAY], and leaves them as
\* saved otherwise.
C15_DecayOnLoad ==
    [][/\ MIN_EPSILON <= epsilon' /\ epsilon' <= INITIAL_EPSILON
       /\ MIN_LEARNING_RATE <= learning_rate' /\ learning_rate' <= INITIAL_LEARNING_RATE
       /\ Loaded =>
            LET ep == model_pkl.content[2] + 1
                saved_epsilon == model_pkl.content[3]
                saved_learning_rate == model_pkl.content[4]
                decayed_epsilon == (saved_epsilon * epsilon_decay_factor) \div Scale
                decayed_learning_rate == (saved_learning_rate * learning_decay_factor) \div Scale
            IN /\ epsilon' <= saved_epsilon
               /\ learning_rate' <= saved_learning_rate
               /\ Decaying(ep) =>
                    /\ epsilon' = IF decayed_epsilon < MIN_EPSILON THEN MIN_EPSILON
                                  ELSE decayed_epsilon
                    /\ learning_rate' = IF decayed_learning_rate < MIN_LEARNING_RATE
                                        THEN MIN_LEARNING_RATE ELSE decayed_learning_rate
               /\ ~Decaying(ep) =>
                    /\ epsilon' = saved_epsilon
                    /\ learning_rate' = saved_learning_rate
       /\ call'.op # "__init__" =>
            epsilon' = epsilon /\ learning_rate' = learning_rate]_vars

\* the last load of the decay window, of a model the run before saved: the decayed
\* epsilon would be below MIN_EPSILON and is clamped
C15_Witness ==
    /\ call.op = "__init__"
    /\ model_pkl.kind = "pickle"
    /\ episode = ROUND_TO_END_LEARNING_DECAY
    /\ model_pkl.content[2] = ROUND_TO_END_LEARNING_DECAY - 1
    /\ (model_pkl.content[3] * epsilon_decay_factor) \div Scale < MIN_EPSILON
    /\ epsilon = MIN_EPSILON

----------------------------------------------------------------------------
\* What the properties of the task list read off a step

\* the task list without its last task
Front(ts) == SubSeq(ts, 1, Len(ts) - 1)

\* rider_id has a PICKUP task in ts
HasPickup(ts, rider_id) ==
    \E i \in 1..Len(ts) : ts[i].rider_id = rider_id /\ ts[i].task_type = "PICKUP"

\* C16 (SpecQueue): register_rider_source(r, f) appends the PICKUP task of r to the task
\* list, and report_rider_pickup(r) called right after it, when r had no PICKUP task
\* before the registration, removes just that task: the task list is again what it was
\* before the registration, in contents and order.
C16_RegisterThenPickupRestoresTasks ==
    [][/\ call'.op = "register_rider_source" =>
            tasks' = Append(tasks, Task(call'.rider_id, call'.floor, "PICKUP"))
       /\ (/\ call.op = "register_rider_source"
           /\ call'.op = "report_rider_pickup"
           /\ call'.rider_id = call.rider_id
           /\ ~HasPickup(Front(tasks), call.rider_id))
          => /\ call'.raised = "none"
             /\ tasks' = Front(tasks)]_vars

\* a pickup was reported and the task list holds the DROPOFF task that was pending
\* before the registration
C16_Witness ==
    /\ call.op = "report_rider_pickup"
    /\ call.raised = "none"
    /\ call.cycle = "decided"
    /\ Len(tasks) = 1
    /\ tasks[1].task_type = "DROPOFF"
    /\ ~HasPickup(tasks, call.rider_id)

\* the registrations the decision cycle of the step read: report_rider_dropoff deletes
\* its rider after the cycle, register_rider_source adds its rider before it
RegistrationsAtCycle ==
    IF call'.op = "report_rider_dropoff" THEN rider_registration_ts
    ELSE rider_registration_ts'

C18_PendingDecisionOutlivesEmptyTasks ==
    [][/\ previous_state_and_action # <<>> => previous_state_and_action' # <<>>
       /\ (tasks' = <<>> /\ call'.cycle # "none") =>
            /\ call'.cycle = "empty"
            /\ previous_state_and_action' = previous_state_and_action
            /\ last_action_ts' = last_action_ts
       /\ (/\ call'.cycle = "decided"
           /\ previous_state_and_action # <<>>
           /\ last_action_ts # current_timestamp) =>
            /\ call'.updated
            /\ previous_state_and_action \in DOMAIN q_table'.cells
            /\ \A key \in DOMAIN q_table'.cells \ {previous_state_and_action} :
                    /\ key \in DOMAIN q_table.cells
                    /\ q_table'.cells[key] = q_table.cells[key]
            /\ q_table'.row = q_table.row
            /\ last_action_ts' = current_timestamp]_vars

\* the update that resolves a decision kept while the task list was empty: the call
\* registered the only task there is, so the list was empty when it was made
C18_Witness ==
    /\ call.op = "register_rider_source"
    /\ call.updated
    /\ Len(tasks) = 1

\* the state and the action of a pending decision
StateOf(pending) == SubSeq(pending, 1, Len(pending) - 1)
ActionOf(pending) == pending[Len(pending)]

\* C19 (SpecLifecycle): a decision cycle changes at most one Q-table entry. When it
\* updates, the entry of the pending (state, action) becomes
\* (1 - learning_rate) * Q[prev] + learning_rate * (reward + DISCOUNT * max Q[current state]),
\* every value read from the table before the write; every other entry is unchanged;
\* an exploiting cycle selects the argmax of the current state's row of that
\* pre-update table; a cycle that does not update, and a call that runs no cycle,
\* leaves the whole table unchanged.
C19_AtMostOneEntryWritten ==
    [][LET prev == previous_state_and_action
           current_state == StateOf(previous_state_and_action')
           row_before == QRow(q_table, current_state, max_floor)
       IN /\ call'.updated =>
                /\ call'.cycle = "decided"
                /\ DOMAIN q_table'.cells = DOMAIN q_table.cells \cup {prev}
                /\ \A key \in DOMAIN q_table.cells \ {prev} :
                        q_table'.cells[key] = q_table.cells[key]
                /\ q_table'.row = q_table.row
                /\ q_table'.cells[prev] =
                        ((Scale - learning_rate) * QValue(q_table, prev)
                            + learning_rate
                                * (call'.reward * QScale
                                    + (DISCOUNT * RowMax(row_before)) \div Scale))
                        \div Scale
          /\ ~call'.updated => q_table' = q_table
          /\ (call'.cycle = "decided" /\ call'.branch = "exploit") =>
                ActionOf(previous_state_and_action') = argmax(row_before)]_vars

\* an exploiting cycle whose update raised the value of another action of the very
\* state it decides in: the action taken is the argmax before the write, not after it
C19_Witness ==
    /\ call.updated
    /\ call.branch = "exploit"
    /\ ActionOf(previous_state_and_action)
            # argmax(QRow(q_table, StateOf(previous_state_and_action), max_floor))

\* the rider has a DROPOFF task pending
HasDropoff(ts, rider_id) ==
    \E i \in 1..Len(ts) : ts[i].rider_id = rider_id /\ ts[i].task_type = "DROPOFF"

\* the riders that registered a source and have not been reported dropped off since
InTransit == {r \in DOMAIN rider_stage : rider_stage[r] \in {"waiting", "picked", "riding"}}

\* the riders with a task pending
WithTask == {tasks[i].rider_id : i \in 1..Len(tasks)}

\* C20 (SpecLifecycle): for riders that register a source, are picked up, register a
\* destination and are dropped off in that order, after every call the keys of
\* rider_registration_ts are the riders that registered a source and were not yet
\* dropped off, every such rider with a pending task has a timestamp, and their
\* report_rider_dropoff does not raise. For a rider that registered a destination
\* without a source, report_rider_dropoff removes the DROPOFF task, runs the decision
\* cycle on the remaining tasks and then raises KeyError for the missing timestamp.
C20_RegistrationsFollowLifecycle ==
    [][call'.op # "none" =>
        LET r == call'.rider_id
        IN /\ DOMAIN rider_registration_ts' = InTransit'
           /\ \A q \in WithTask' : rider_stage'[q] # "stray" => q \in DOMAIN rider_registration_ts'
           /\ (call'.op = "report_rider_dropoff" /\ rider_stage[r] = "riding") =>
                /\ call'.raised = "none"
                /\ r \in DOMAIN rider_registration_ts
                /\ r \notin DOMAIN rider_registration_ts'
           /\ (/\ call'.op = "report_rider_dropoff"
               /\ rider_stage[r] = "stray"
               /\ HasDropoff(tasks, r)) =>
                /\ tasks' = WithoutFirst(tasks, r, "DROPOFF")
                /\ call'.cycle = (IF tasks' = <<>> THEN "empty" ELSE "decided")
                /\ call'.cycle = "decided" =>
                        /\ last_action_ts' = current_timestamp
                        /\ call'.updated = (previous_state_and_action # <<>>
                                                /\ last_action_ts # current_timestamp)
                /\ call'.raised = "KeyError"
                /\ rider_registration_ts' = rider_registration_ts]_vars

\* a rider without a source is reported dropped off while another rider is in transit:
\* the cycle decided and updated on the remaining tasks before the KeyError
C20_Witness ==
    /\ call.op = "report_rider_dropoff"
    /\ rider_stage[call.rider_id] = "stray"
    /\ call.raised = "KeyError"
    /\ call.cycle = "decided"
    /\ call.updated
    /\ DOMAIN rider_registration_ts # {}

====
